---- MODULE Spec2Model ----
(***************************************************************************)
(* Model of the BSON-to-JSON converter page (src/src/app/page.tsx):        *)
(* handleFileChange, handleConvert (the per-file framing / decoding loop), *)
(* fixObjectKeys and the JSON.stringify call with its bigint replacer.     *)
(*                                                                         *)
(* Text is modelled as a sequence of one-character strings.  A JavaScript  *)
(* value is a record tagged by t:                                          *)
(*   [t |-> "null"]                                                        *)
(*   [t |-> "boolean", b]                                                  *)
(*   [t |-> "number", cls, int, frac]   cls: finite / NaN / Infinity /     *)
(*                                      -Infinity; literal int "." frac    *)
(*   [t |-> "bigint", bytes]            64-bit two's complement, 8 bytes   *)
(*                                      little-endian                      *)
(*   [t |-> "string", s]                                                   *)
(*   [t |-> "array", items]                                                *)
(*   [t |-> "object", cls, props]       cls: the constructor (Object,      *)
(*                                      Binary, Timestamp, Uint8Array);    *)
(*                                      props: own enumerable properties   *)
(*                                      in enumeration order               *)
(*                                                                         *)
(* The files handed over are taken as readable (file.arrayBuffer() does    *)
(* not reject).  console.error and handleDownloadIndividual act outside    *)
(* the page state and are left out.                                        *)
(***************************************************************************)
EXTENDS Integers, Sequences, FiniteSets, TLC

\* ------------------------------------------------------------------ bounds

\* Largest number of files in one multi-file selection.
MaxFiles == 3

\* ------------------------------------------------------------- characters

Q == "\""

BS == "\\"

Digits == <<"0", "1", "2", "3", "4", "5", "6", "7", "8", "9">>

\* ------------------------------------------------------- JavaScript values

JNull == [t |-> "null"]

JBool(b) == [t |-> "boolean", b |-> b]

JInt(n) == [t |-> "number", cls |-> "finite", int |-> n, frac |-> <<>>]

JFrac(n, f) == [t |-> "number", cls |-> "finite", int |-> n, frac |-> f]

JNonFinite(c) == [t |-> "number", cls |-> c, int |-> 0, frac |-> <<>>]

JBigInt(bytes) == [t |-> "bigint", bytes |-> bytes]

JString(s) == [t |-> "string", s |-> s]

JArray(items) == [t |-> "array", items |-> items]

JObject(props) == [t |-> "object", cls |-> "Object", props |-> props]

JInstance(cls, props) == [t |-> "object", cls |-> cls, props |-> props]

Prop(k, v) == [key |-> k, val |-> v]

\* typeof v
TypeOf(v) ==
  IF v.t \in {"null", "array", "object"} THEN "object" ELSE v.t

\* Array.isArray(v)
IsArray(v) == v.t = "array"

\* Index of key k among props, 0 when absent.
KeyIndex(props, k) ==
  IF \E i \in 1..Len(props) : props[i].key = k
  THEN CHOOSE i \in 1..Len(props) : props[i].key = k
  ELSE 0

\* newObj[k] = v on an ordinary object: an existing key keeps its place and
\* takes the new value, a new key is appended.
SetProp(props, k, v) ==
  LET i == KeyIndex(props, k)
  IN IF i = 0 THEN Append(props, Prop(k, v))
     ELSE [props EXCEPT ![i] = Prop(k, v)]

\* ------------------------------------------------------------ fixObjectKeys

RECURSIVE fixObjectKeys(_)

RECURSIVE FixProps(_, _, _)

\* A mutant of NewKey: the closing quote is not required.
NewKeyLeadingOnly(key) ==
  IF Len(key) >= 2 /\ key[1] = Q
  THEN SubSeq(key, 2, Len(key) - 1)
  ELSE key

\* The key under which fixObjectKeys stores a property named key.
NewKey(key) ==
  IF Len(key) >= 2 /\ key[1] = Q /\ key[Len(key)] = Q
  THEN SubSeq(key, 2, Len(key) - 1)
  ELSE key

\* The for...in loop over the own properties, from the i-th on.
FixProps(props, i, newObj) ==
  IF i > Len(props) THEN newObj
  ELSE FixProps(props, i + 1,
                SetProp(newObj, NewKey(props[i].key), fixObjectKeys(props[i].val)))

fixObjectKeys(obj) ==
  IF IsArray(obj)
  THEN JArray([i \in 1..Len(obj.items) |-> fixObjectKeys(obj.items[i])])
  ELSE IF TypeOf(obj) = "object" /\ obj.t # "null"
  THEN JObject(FixProps(obj.props, 1, <<>>))
  ELSE obj

\* ------------------------------------------------------------------- bytes

\* Buffer.readInt32LE(offset): offset counts from 0.  The high byte carries
\* the sign.
readInt32LE(buf, offset) ==
  LET b0 == buf[offset + 1]
      b1 == buf[offset + 2]
      b2 == buf[offset + 3]
      b3 == buf[offset + 4]
      low == b0 + 256 * b1 + 65536 * b2
  IN IF b3 >= 128 THEN (b3 - 256) * 16777216 + low
     ELSE b3 * 16777216 + low

\* Buffer.subarray(start, end): the bytes start .. end-1, counted from 0.
subarray(buf, start, end) == SubSeq(buf, start + 1, end)

\* ------------------------------------------------ BSON.deserialize (codec)
\* The codec is an external library.  It is modelled on the element types
\* null (0x0A), boolean (0x08), int32 (0x10) and int64 (0x12, a bigint under
\* useBigInt64); any other type byte is rejected.  The result is
\* [threw |-> FALSE, value |-> v] or [threw |-> TRUE, message |-> text].

Threw(m) == [threw |-> TRUE, message |-> <<m>>]

Returned(v) == [threw |-> FALSE, value |-> v]

\* The character a key byte decodes to.
CharOfByte(b) ==
  CASE b = 34 -> Q
    [] b = 97 -> "a"
    [] b = 98 -> "b"
    [] OTHER -> "?"

\* Index (from 1) of the first zero byte at or after i, 0 when there is none.
RECURSIVE FindNul(_, _)
FindNul(buf, i) ==
  IF i > Len(buf) THEN 0
  ELSE IF buf[i] = 0 THEN i
  ELSE FindNul(buf, i + 1)

\* Number of value bytes of an element of the given type, -1 when the type
\* is not known.
ValueSize(type) ==
  CASE type = 10 -> 0
    [] type = 8 -> 1
    [] type = 16 -> 4
    [] type = 18 -> 8
    [] OTHER -> -1

ElementValue(type, bytes) ==
  CASE type = 10 -> JNull
    [] type = 8 -> JBool(bytes[1] = 1)
    [] type = 16 -> JInt(readInt32LE(bytes, 0))
    [] type = 18 -> JBigInt(bytes)

\* The element loop of the codec from index i (from 1), props decoded so far.
RECURSIVE DeserializeElements(_, _, _)
DeserializeElements(buf, i, props) ==
  IF i > Len(buf) THEN Threw("corrupt object bson")
  ELSE IF buf[i] = 0
  THEN IF i = Len(buf) THEN Returned(JObject(props))
       ELSE Threw("corrupt object bson")
  ELSE LET type == buf[i]
           nul == FindNul(buf, i + 1)
           n == ValueSize(type)
       IN IF nul = 0 THEN Threw("Bad BSON Document: illegal CString")
          ELSE IF n < 0 THEN Threw("Detected unknown BSON type")
          ELSE IF nul + n >= Len(buf) THEN Threw("corrupt object bson")
          ELSE IF type = 8 /\ buf[nul + 1] \notin {0, 1}
          THEN Threw("illegal boolean type value")
          ELSE DeserializeElements(
                 buf, nul + n + 1,
                 SetProp(props,
                         [k \in 1..(nul - i - 1) |-> CharOfByte(buf[i + k])],
                         ElementValue(type, SubSeq(buf, nul + 1, nul + n))))

\* BSON.deserialize(documentBuffer, {useBigInt64: true, promoteValues: true})
deserialize(buf) ==
  IF Len(buf) < 5 THEN Threw("bson size must be >= 5")
  ELSE IF readInt32LE(buf, 0) # Len(buf)
  THEN Threw("buffer length must === bson size")
  ELSE IF buf[Len(buf)] # 0 THEN Threw("element at last position must be 0")
  ELSE DeserializeElements(buf, 5, <<>>)

\* ------------------------------------------------------ number formatting

\* Decimal digits of a non-negative integer.
RECURSIVE NatToDec(_)
NatToDec(n) ==
  IF n < 10 THEN <<Digits[n + 1]>>
  ELSE NatToDec(n \div 10) \o <<Digits[(n % 10) + 1]>>

\* Decimal text of an integer; the last digit of a negative one is taken
\* before the sign is dropped, so that -2^31 needs no number above 2^31 - 1.
IntToDec(n) ==
  IF n >= 0 THEN NatToDec(n)
  ELSE LET last == (10 - (n % 10)) % 10
           rest == -((n + last) \div 10)
       IN <<"-">> \o (IF rest = 0 THEN <<>> ELSE NatToDec(rest))
                  \o <<Digits[last + 1]>>

\* Number.prototype.toString of a number value.
NumberToString(v) ==
  IF v.cls = "NaN" THEN <<"N", "a", "N">>
  ELSE IF v.cls = "Infinity" THEN <<"I", "n", "f", "i", "n", "i", "t", "y">>
  ELSE IF v.cls = "-Infinity" THEN <<"-", "I", "n", "f", "i", "n", "i", "t", "y">>
  ELSE IntToDec(v.int) \o (IF v.frac = <<>> THEN <<>> ELSE <<".">> \o v.frac)

Reverse(s) == [i \in 1..Len(s) |-> s[Len(s) + 1 - i]]

\* Two's complement negation of little-endian bytes, from byte i on, with the
\* carry of the +1.
RECURSIVE NegateFrom(_, _, _)
NegateFrom(bytes, i, carry) ==
  IF i > Len(bytes) THEN <<>>
  ELSE LET x == (255 - bytes[i]) + carry
       IN <<x % 256>> \o NegateFrom(bytes, i + 1, x \div 256)

Negate(bytes) == NegateFrom(bytes, 1, 1)

\* Long division by ten of big-endian base-256 digits from digit i on:
\* [q |-> quotient digits, r |-> remainder].
RECURSIVE DivTen(_, _, _)
DivTen(be, i, carry) ==
  IF i > Len(be) THEN [q |-> <<>>, r |-> carry]
  ELSE LET x == carry * 256 + be[i]
           rest == DivTen(be, i + 1, x % 10)
       IN [q |-> <<x \div 10>> \o rest.q, r |-> rest.r]

IsZero(digits) == \A i \in 1..Len(digits) : digits[i] = 0

\* Decimal digits of an unsigned big-endian magnitude, empty for zero.
RECURSIVE MagnitudeToDec(_)
MagnitudeToDec(be) ==
  IF IsZero(be) THEN <<>>
  ELSE LET d == DivTen(be, 1, 0)
       IN MagnitudeToDec(d.q) \o <<Digits[d.r + 1]>>

\* A mutant of BigIntToString: the value goes through a double first, which
\* keeps only the 53 most significant bits (here: the low byte is lost for
\* magnitudes of eight significant bytes).
BigIntToStringViaDouble(bytes) ==
  LET neg == bytes[Len(bytes)] >= 128
      mag == IF neg THEN Negate(bytes) ELSE bytes
      cut == IF mag[Len(mag)] # 0 THEN [mag EXCEPT ![1] = 0] ELSE mag
  IN IF IsZero(cut) THEN <<"0">>
     ELSE (IF neg THEN <<"-">> ELSE <<>>) \o MagnitudeToDec(Reverse(cut))

\* BigInt.prototype.toString: the exact decimal text of the 64-bit value.
BigIntToString(bytes) ==
  LET neg == bytes[Len(bytes)] >= 128
      mag == IF neg THEN Negate(bytes) ELSE bytes
  IN IF IsZero(mag) THEN <<"0">>
     ELSE (IF neg THEN <<"-">> ELSE <<>>) \o MagnitudeToDec(Reverse(mag))

\* ---------------------------------------------------------- JSON.stringify
\* The output text is the concatenation of a sequence of pieces; the model
\* keeps the pieces apart.  Each piece is a sequence of characters: a
\* punctuation mark, a line break with its indentation, a quoted key, or the
\* text of a scalar.

\* The replacer handed to JSON.stringify.
replacer(key, value) ==
  IF TypeOf(value) = "bigint" THEN JString(BigIntToString(value.bytes))
  ELSE value

RECURSIVE EscapeJSON(_)
EscapeJSON(s) ==
  IF s = <<>> THEN <<>>
  ELSE (IF Head(s) = Q \/ Head(s) = BS THEN <<BS, Head(s)>> ELSE <<Head(s)>>)
       \o EscapeJSON(Tail(s))

QuoteJSONString(s) == <<Q>> \o EscapeJSON(s) \o <<Q>>

\* A line break followed by the indentation of nesting level n (gap of 2).
NewLine(n) == <<"\n">> \o [i \in 1..(2 * n) |-> " "]

\* Whether serialization meets a bigint the replacer left in place
\* (JSON.stringify throws a TypeError on it).
RECURSIVE SerializeThrows(_, _)
SerializeThrows(key, held) ==
  LET value == replacer(key, held)
  IN \/ value.t = "bigint"
     \/ /\ value.t = "array"
        /\ \E i \in 1..Len(value.items) : SerializeThrows(<<>>, value.items[i])
     \/ /\ value.t = "object"
        /\ \E i \in 1..Len(value.props) :
             SerializeThrows(value.props[i].key, value.props[i].val)

RECURSIVE SerializeJSONProperty(_, _, _)

\* The members of an object or the elements of an array from the i-th on,
\* separated by commas, each on its own line at nesting level n.
RECURSIVE SerializeMembers(_, _, _)
SerializeMembers(value, i, n) ==
  LET count == IF value.t = "array" THEN Len(value.items) ELSE Len(value.props)
  IN IF i > count THEN <<>>
     ELSE (IF i > 1 THEN <<(<<",">>)>> ELSE <<>>)
          \o <<NewLine(n)>>
          \o (IF value.t = "array"
              THEN SerializeJSONProperty(<<>>, value.items[i], n)
              ELSE <<QuoteJSONString(value.props[i].key), <<":">>, <<" ">>>>
                   \o SerializeJSONProperty(value.props[i].key,
                                            value.props[i].val, n))
          \o SerializeMembers(value, i + 1, n)

\* The pieces of one property value held at nesting level n.
SerializeJSONProperty(key, held, n) ==
  LET value == replacer(key, held)
  IN CASE value.t = "null" -> <<(<<"n", "u", "l", "l">>)>>
       [] value.t = "boolean" -> <<(IF value.b THEN <<"t", "r", "u", "e">>
                                               ELSE <<"f", "a", "l", "s", "e">>)>>
       [] value.t = "string" -> <<QuoteJSONString(value.s)>>
       [] value.t = "number" ->
            IF value.cls = "finite" THEN <<NumberToString(value)>>
            ELSE <<(<<"n", "u", "l", "l">>)>>
       [] value.t = "array" ->
            IF value.items = <<>> THEN <<(<<"[">>), (<<"]">>)>>
            ELSE <<(<<"[">>)>> \o SerializeMembers(value, 1, n + 1)
                 \o <<NewLine(n), <<"]">>>>
       [] value.t = "object" ->
            IF value.props = <<>> THEN <<(<<"{">>), (<<"}">>)>>
            ELSE <<(<<"{">>)>> \o SerializeMembers(value, 1, n + 1)
                 \o <<NewLine(n), <<"}">>>>

\* JSON.stringify(value, replacer, 2)
JSONStringify(value) ==
  IF SerializeThrows(<<>>, value)
  THEN Threw("Do not know how to serialize a BigInt")
  ELSE Returned(SerializeJSONProperty(<<>>, value, 0))

\* ------------------------------------------------------------------ inputs
\* A file is [name |-> text, bytes |-> bytes].  A name is kept as its
\* segments, the last one being the extension with its dot.

\* Largest number of chunks concatenated into one generated buffer.
MaxChunks == 2

DocNull == <<8, 0, 0, 0, 10, 97, 0, 0>>

DocQuoted == <<11, 0, 0, 0, 8, 34, 97, 34, 0, 1, 0>>

DocInt64 == <<16, 0, 0, 0, 18, 98, 0, 255, 255, 255, 255, 255, 255, 255, 127, 0>>

DocBad == <<5, 0, 0, 0, 1>>

SizeZero == <<0, 0, 0, 0>>

SizeNegative == <<255, 255, 255, 255>>

SizeOverrun == <<9, 0, 0, 0, 0>>

ShortTail == <<7, 0>>

Chunks ==
  {DocNull, DocQuoted, DocBad, SizeZero, SizeNegative, SizeOverrun, ShortTail}

\* Every concatenation of at most n chunks.
RECURSIVE Concatenations(_)
Concatenations(n) ==
  IF n = 0 THEN {<<>>}
  ELSE LET shorter == Concatenations(n - 1)
       IN shorter \cup {b \o c : b \in shorter, c \in Chunks}

Buffers == Concatenations(MaxChunks)

NameA == <<"a", ".bson">>

NameB == <<"b", ".db">>

NameT == <<"t", ".txt">>

File(name, bytes) == [name |-> name, bytes |-> bytes]

\* The files multi-file selections are drawn from: a two-document success,
\* an empty file, a framing failure after a good document, a decode failure
\* after a good document, and a file too short to hold a length prefix.
BatchFiles ==
  { File(NameA, DocInt64 \o DocQuoted),
    File(NameB, <<>>),
    File(NameA, DocNull \o SizeZero),
    File(NameB, DocNull \o DocBad),
    File(NameB, ShortTail) }

RECURSIVE Tuples(_, _)
Tuples(S, n) ==
  IF n = 0 THEN {<<>>}
  ELSE {Append(t, x) : t \in Tuples(S, n - 1), x \in S}

\* What the file input can hand to handleFileChange.
Selections ==
  {<<>>}
  \cup {<<File(NameA, b)>> : b \in Buffers}
  \cup UNION {Tuples(BatchFiles, n) : n \in 2..MaxFiles}
  \cup {<<File(NameT, DocNull)>>, <<File(NameA, DocNull), File(NameT, DocNull)>>}

\* ------------------------------------------------------------------- state

VARIABLES
  selectedFiles,      \* useState: the files chosen
  convertedResults,   \* useState: [isNull |-> TRUE] or [isNull |-> FALSE, results]
  isConverting,       \* useState
  fileNamesDisplay,   \* useState: [isNull |-> TRUE] or [isNull |-> FALSE, text]
  pc,                 \* where the running handleConvert stands: idle, file, loop, post
  files,              \* handleConvert: the selectedFiles its closure captured
  fileIdx,            \* handleConvert: index (from 1) of the file of the for loop
  resultsBatch,       \* handleConvert: results pushed so far
  anyErrors,          \* handleConvert
  offset,             \* per file: read position, counted from 0
  documents,          \* per file: documents decoded and key-fixed so far
  fileSpecificErrorToastShown,  \* per file
  toast,              \* the toast the last step raised, NoToast when none
  call                \* a function called on its own (function-level
                      \* specifications); [fn |-> "none"] in Spec

vars ==
  <<selectedFiles, convertedResults, isConverting, fileNamesDisplay, pc, files,
    fileIdx, resultsBatch, anyErrors, offset, documents,
    fileSpecificErrorToastShown, toast, call>>

reactState == <<selectedFiles, convertedResults, isConverting, fileNamesDisplay>>

handlerState ==
  <<selectedFiles, convertedResults, isConverting, fileNamesDisplay, pc, files,
    fileIdx, resultsBatch, anyErrors, offset, documents,
    fileSpecificErrorToastShown, toast>>

fileLocals == <<offset, documents, fileSpecificErrorToastShown>>

Null == [isNull |-> TRUE]

NoToast == [raised |-> FALSE]

\* toast({title, description, variant}); variant "default" when none is given
Toast(title, description, variant) ==
  [raised |-> TRUE, title |-> title, description |-> description,
   variant |-> variant]

file == files[fileIdx]

nodeBuffer == files[fileIdx].bytes

\* name.endsWith('.db') || name.endsWith('.bson')
HasValidExtension(name) == name[Len(name)] \in {".db", ".bson"}

\* files.map(f => f.name).join(', ')
RECURSIVE JoinNames(_)
JoinNames(fs) ==
  IF fs = <<>> THEN <<>>
  ELSE IF Len(fs) = 1 THEN Head(fs).name
  ELSE Head(fs).name \o <<", ">> \o JoinNames(Tail(fs))

\* name.replace(/\.(db|bson)$/i, '.json')
DownloadName(name) ==
  IF name[Len(name)] \in {".db", ".bson", ".DB", ".BSON", ".Db", ".Bson"}
  THEN SubSeq(name, 1, Len(name) - 1) \o <<".json">>
  ELSE name

\* ---------------------------------------------------------- result records

Failure(name, error) == [originalName |-> name, error |-> error]

Success(name, jsonString) ==
  [originalName |-> name, jsonString |-> jsonString,
   downloadName |-> DownloadName(name)]

IsFailure(r) == "error" \in DOMAIN r

IsSuccess(r) == "jsonString" \in DOMAIN r

EmptyFileMessage == <<"File is empty.">>

\* A mutant of InvalidSizeMessage: the file is not named.
InvalidSizeMessageUnnamed(name) ==
  <<"Invalid BSON document size. File may be corrupt.">>

InvalidSizeMessage(name) ==
  <<"Invalid BSON document size in ">> \o name \o <<". File may be corrupt.">>

CouldNotParseMessage(name) ==
  <<"Could not parse BSON documents from ">> \o name \o <<". It may be invalid.">>

UnexpectedMessage(name) ==
  <<"An unexpected error occurred during conversion of ">> \o name \o <<".">>

\* e.message || `An unexpected error occurred ...`
CaughtMessage(message, name) ==
  IF message = <<>> THEN UnexpectedMessage(name) ELSE message

\* ----------------------------------------------------------------- actions

\* The page as constructed.
InitPage ==
  /\ selectedFiles = <<>>
  /\ convertedResults = Null
  /\ isConverting = FALSE
  /\ fileNamesDisplay = Null
  /\ pc = "idle"
  /\ files = <<>>
  /\ fileIdx = 0
  /\ resultsBatch = <<>>
  /\ anyErrors = FALSE
  /\ offset = 0
  /\ documents = <<>>
  /\ fileSpecificErrorToastShown = FALSE
  /\ toast = NoToast

NoCall == [fn |-> "none"]

Init == InitPage /\ call = NoCall

\* handleFileChange with the file input holding fs.  The model takes file
\* selection between conversions: a running handleConvert works on the
\* selectedFiles its closure captured.
HandleFileChange(fs) ==
  /\ pc = "idle"
  /\ IF Len(fs) > 0
     THEN IF ~(\A i \in 1..Len(fs) : HasValidExtension(fs[i].name))
          THEN /\ toast' = Toast("Invalid File Type",
                               <<"Please ensure all selected files are .db or .bson files.">>,
                               "destructive")
               /\ selectedFiles' = <<>>
               /\ fileNamesDisplay' = Null
               /\ convertedResults' = Null
          ELSE /\ selectedFiles' = fs
               /\ fileNamesDisplay' = [isNull |-> FALSE, text |-> JoinNames(fs)]
               /\ convertedResults' = Null
               /\ toast' = NoToast
     ELSE /\ selectedFiles' = <<>>
          /\ fileNamesDisplay' = Null
          /\ toast' = NoToast
          /\ UNCHANGED convertedResults
  /\ UNCHANGED <<isConverting, pc, files, fileIdx, resultsBatch, anyErrors,
                 fileLocals>>
  /\ UNCHANGED call

\* handleConvert up to the for loop.  The button that calls it is disabled
\* while selectedFiles is empty or a conversion runs, so the early return
\* for an empty selection is never taken.
HandleConvert ==
  /\ pc = "idle"
  /\ Len(selectedFiles) > 0
  /\ ~isConverting
  /\ isConverting' = TRUE
  /\ convertedResults' = Null
  /\ resultsBatch' = <<>>
  /\ anyErrors' = FALSE
  /\ files' = selectedFiles
  /\ fileIdx' = 1
  /\ pc' = "file"
  /\ UNCHANGED <<selectedFiles, fileNamesDisplay, fileLocals>>
  /\ toast' = NoToast
  /\ UNCHANGED call

\* A mutant of DeclareFileLocals: documents is declared outside the for
\* loop and so carries over from one file to the next.
DeclareFileLocalsHoisted ==
  /\ offset' = 0
  /\ documents' = documents
  /\ fileSpecificErrorToastShown' = FALSE

\* The declarations at the head of the loop body.
DeclareFileLocals ==
  /\ offset' = 0
  /\ documents' = <<>>
  /\ fileSpecificErrorToastShown' = FALSE

\* The file's bytes are read and the file is empty: a failure, continue.
ReadEmptyFile ==
  /\ pc = "file"
  /\ fileIdx <= Len(files)
  /\ Len(nodeBuffer) = 0
  /\ DeclareFileLocals
  /\ resultsBatch' = Append(resultsBatch, Failure(file.name, EmptyFileMessage))
  /\ anyErrors' = TRUE
  /\ fileIdx' = fileIdx + 1
  /\ UNCHANGED <<reactState, pc, files>>
  /\ toast' = NoToast
  /\ UNCHANGED call

\* The file's bytes are read and the while loop is entered.
ReadFile ==
  /\ pc = "file"
  /\ fileIdx <= Len(files)
  /\ Len(nodeBuffer) # 0
  /\ DeclareFileLocals
  /\ pc' = "loop"
  /\ UNCHANGED <<reactState, files, fileIdx, resultsBatch, anyErrors>>
  /\ toast' = NoToast
  /\ UNCHANGED call

\* The while condition fails: offset has reached the end of the buffer.
LoopEnd ==
  /\ pc = "loop"
  /\ ~(offset < Len(nodeBuffer))
  /\ pc' = "post"
  /\ UNCHANGED <<reactState, files, fileIdx, resultsBatch, anyErrors, fileLocals>>
  /\ toast' = NoToast
  /\ UNCHANGED call

\* A mutant of TrailingBytes: leftover bytes are reported as a corrupt size.
TrailingBytesFails ==
  /\ pc = "loop"
  /\ offset < Len(nodeBuffer)
  /\ offset + 4 > Len(nodeBuffer)
  /\ resultsBatch' =
       Append(resultsBatch, Failure(file.name, InvalidSizeMessage(file.name)))
  /\ fileSpecificErrorToastShown' = TRUE
  /\ anyErrors' = TRUE
  /\ pc' = "post"
  /\ UNCHANGED <<reactState, files, fileIdx, offset, documents, call>>
  /\ toast' = (IF Len(files) = 1
               THEN Toast("BSON Parsing Error", InvalidSizeMessage(file.name), "destructive")
               ELSE NoToast)

\* Fewer than four bytes are left: break.
TrailingBytes ==
  /\ pc = "loop"
  /\ offset < Len(nodeBuffer)
  /\ offset + 4 > Len(nodeBuffer)
  /\ pc' = "post"
  /\ UNCHANGED <<reactState, files, fileIdx, resultsBatch, anyErrors, fileLocals>>
  /\ toast' = NoToast
  /\ UNCHANGED call

\* A mutant of SizeIsInvalid: a size of zero is let through.
SizeIsInvalidStrict(size, remaining) == size < 0 \/ size > remaining

\* size <= 0 || size > nodeBuffer.length - offset
SizeIsInvalid(size, remaining) == size <= 0 \/ size > remaining

\* The length prefix at offset is invalid: a failure is pushed, break.
InvalidSize ==
  /\ pc = "loop"
  /\ offset < Len(nodeBuffer)
  /\ ~(offset + 4 > Len(nodeBuffer))
  /\ SizeIsInvalid(readInt32LE(nodeBuffer, offset), Len(nodeBuffer) - offset)
  /\ resultsBatch' =
       Append(resultsBatch, Failure(file.name, InvalidSizeMessage(file.name)))
  /\ fileSpecificErrorToastShown' = TRUE
  /\ anyErrors' = TRUE
  /\ pc' = "post"
  /\ UNCHANGED <<reactState, files, fileIdx, offset, documents>>
  /\ toast' = (IF Len(files) = 1
               THEN Toast("BSON Parsing Error", InvalidSizeMessage(file.name), "destructive")
               ELSE NoToast)
  /\ UNCHANGED call

\* A mutant of DecodeDocument: offset is not advanced.
DecodeDocumentNoAdvance ==
  /\ pc = "loop"
  /\ offset < Len(nodeBuffer)
  /\ ~(offset + 4 > Len(nodeBuffer))
  /\ LET size == readInt32LE(nodeBuffer, offset)
         rawDoc == deserialize(subarray(nodeBuffer, offset, offset + size))
     IN /\ size > 0 /\ size <= Len(nodeBuffer) - offset
        /\ ~rawDoc.threw
        /\ documents' = Append(documents, fixObjectKeys(rawDoc.value))
        /\ offset' = offset
  /\ UNCHANGED <<reactState, pc, files, fileIdx, resultsBatch, anyErrors,
                 fileSpecificErrorToastShown, call>>
  /\ toast' = NoToast

\* The document at offset is decoded, key-fixed and kept; offset advances.
DecodeDocument ==
  /\ pc = "loop"
  /\ offset < Len(nodeBuffer)
  /\ ~(offset + 4 > Len(nodeBuffer))
  /\ LET size == readInt32LE(nodeBuffer, offset)
         rawDoc == deserialize(subarray(nodeBuffer, offset, offset + size))
     IN /\ ~SizeIsInvalid(size, Len(nodeBuffer) - offset)
        /\ ~rawDoc.threw
        /\ documents' = Append(documents, fixObjectKeys(rawDoc.value))
        /\ offset' = offset + size
  /\ UNCHANGED <<reactState, pc, files, fileIdx, resultsBatch, anyErrors,
                 fileSpecificErrorToastShown>>
  /\ toast' = NoToast
  /\ UNCHANGED call

\* The catch block: a failure with the error's message, then the next file.
Catch(message) ==
  /\ resultsBatch' =
       Append(resultsBatch, Failure(file.name, CaughtMessage(message, file.name)))
  /\ toast' = (IF Len(files) = 1
               THEN Toast("Conversion Error",
                          CaughtMessage(message, file.name), "destructive")
               ELSE NoToast)
  /\ anyErrors' = TRUE
  /\ fileIdx' = fileIdx + 1
  /\ pc' = "file"

\* A mutant of DecodeThrows: the error is swallowed inside the loop and the
\* rejected document skipped.
DecodeThrowsSkipsDocument ==
  /\ pc = "loop"
  /\ offset < Len(nodeBuffer)
  /\ ~(offset + 4 > Len(nodeBuffer))
  /\ LET size == readInt32LE(nodeBuffer, offset)
         rawDoc == deserialize(subarray(nodeBuffer, offset, offset + size))
     IN /\ size > 0 /\ size <= Len(nodeBuffer) - offset
        /\ rawDoc.threw
        /\ offset' = offset + size
  /\ UNCHANGED <<reactState, pc, files, fileIdx, resultsBatch, anyErrors,
                 documents, fileSpecificErrorToastShown, call>>
  /\ toast' = NoToast

\* The codec throws on the document at offset.
DecodeThrows ==
  /\ pc = "loop"
  /\ offset < Len(nodeBuffer)
  /\ ~(offset + 4 > Len(nodeBuffer))
  /\ LET size == readInt32LE(nodeBuffer, offset)
         rawDoc == deserialize(subarray(nodeBuffer, offset, offset + size))
     IN /\ ~SizeIsInvalid(size, Len(nodeBuffer) - offset)
        /\ rawDoc.threw
        /\ Catch(rawDoc.message)
  /\ UNCHANGED <<reactState, files, fileLocals>>
  /\ UNCHANGED call

\* After the loop, a file whose failure was pushed in the loop is skipped.
SkipFile ==
  /\ pc = "post"
  /\ fileSpecificErrorToastShown
  /\ fileIdx' = fileIdx + 1
  /\ pc' = "file"
  /\ UNCHANGED <<reactState, files, resultsBatch, anyErrors, fileLocals>>
  /\ toast' = NoToast
  /\ UNCHANGED call

\* A mutant of OutputData: the root is an array whatever the count.
OutputDataAlwaysArray(docs) == JArray(docs)

\* documents.length === 1 ? documents[0] : documents
OutputData(docs) == IF Len(docs) = 1 THEN docs[1] ELSE JArray(docs)

\* After the loop with documents: they are serialized and a success pushed.
PushSuccess ==
  /\ pc = "post"
  /\ ~fileSpecificErrorToastShown
  /\ Len(documents) > 0
  /\ LET jsonString == JSONStringify(OutputData(documents))
     IN IF jsonString.threw
        THEN Catch(jsonString.message)
        ELSE /\ resultsBatch' =
                  Append(resultsBatch, Success(file.name, jsonString.value))
             /\ fileIdx' = fileIdx + 1
             /\ pc' = "file"
             /\ toast' = NoToast
             /\ UNCHANGED anyErrors
  /\ UNCHANGED <<reactState, files, fileLocals>>
  /\ UNCHANGED call

\* After the loop without documents: a failure for the non-empty buffer.
PushEmptyResult ==
  /\ pc = "post"
  /\ ~fileSpecificErrorToastShown
  /\ ~(Len(documents) > 0)
  /\ IF Len(nodeBuffer) > 0
     THEN /\ resultsBatch' =
               Append(resultsBatch,
                      Failure(file.name, CouldNotParseMessage(file.name)))
          /\ toast' = (IF Len(files) = 1
                       THEN Toast("BSON Conversion Failed",
                                  CouldNotParseMessage(file.name), "destructive")
                       ELSE NoToast)
          /\ anyErrors' = TRUE
     ELSE /\ toast' = NoToast
          /\ UNCHANGED <<resultsBatch, anyErrors>>
  /\ fileIdx' = fileIdx + 1
  /\ pc' = "file"
  /\ UNCHANGED <<reactState, files, fileLocals>>
  /\ UNCHANGED call

\* resultsBatch.filter(r => r.jsonString).length
SuccessCount(results) ==
  Cardinality({i \in 1..Len(results) :
                 IsSuccess(results[i]) /\ results[i].jsonString # <<>>})

\* The toast raised once the results are published.
CompletionToast ==
  IF Len(resultsBatch) > 0
  THEN IF Len(files) = 1
       THEN IF IsSuccess(resultsBatch[1]) /\ resultsBatch[1].jsonString # <<>>
            THEN Toast("Conversion Complete",
                       <<"Processed ">> \o resultsBatch[1].originalName \o <<".">>,
                       "default")
            ELSE NoToast
       ELSE IF SuccessCount(resultsBatch) > 0
            THEN Toast("Conversion Complete",
                       <<"Processed ">> \o NatToDec(SuccessCount(resultsBatch))
                         \o <<" ">>
                         \o <<(IF SuccessCount(resultsBatch) = 1 THEN "file"
                                ELSE "files")>>
                         \o <<".">>,
                       IF anyErrors THEN "warning" ELSE "default")
            ELSE NoToast
  ELSE NoToast

\* The for loop is over: the results are published and handleConvert returns.
Finish ==
  /\ pc = "file"
  /\ fileIdx > Len(files)
  /\ convertedResults' = [isNull |-> FALSE, results |-> resultsBatch]
  /\ isConverting' = FALSE
  /\ pc' = "idle"
  /\ files' = <<>>
  /\ fileIdx' = 0
  /\ resultsBatch' = <<>>
  /\ anyErrors' = FALSE
  /\ offset' = 0
  /\ documents' = <<>>
  /\ fileSpecificErrorToastShown' = FALSE
  /\ UNCHANGED <<selectedFiles, fileNamesDisplay>>
  /\ toast' = CompletionToast
  /\ UNCHANGED call

Next ==
  \/ \E fs \in Selections : HandleFileChange(fs)
  \/ HandleConvert
  \/ ReadEmptyFile
  \/ ReadFile
  \/ LoopEnd
  \/ TrailingBytes
  \/ InvalidSize
  \/ DecodeDocument
  \/ DecodeThrows
  \/ SkipFile
  \/ PushSuccess
  \/ PushEmptyResult
  \/ Finish

\* The steps of the while loop.  The loop body holds no await: once entered
\* it runs to its end.
LoopStep ==
  LoopEnd \/ TrailingBytes \/ InvalidSize \/ DecodeDocument \/ DecodeThrows

Spec == Init /\ [][Next]_vars

SpecLoop == Spec /\ WF_vars(LoopStep)

\* ------------------------------------------- function-level specifications
\* fixObjectKeys and the serialization are also run on their own, on values
\* of every shape the codec hands over, nested values and class instances
\* included (the codec model of Spec decodes flat documents only).

\* Longest generated property key.
MaxKeyLen == 4

\* Levels of nesting wrapped around the generated flat values.
MaxDepth == 1

Int64Max == <<255, 255, 255, 255, 255, 255, 255, 127>>

Int64Min == <<0, 0, 0, 0, 0, 0, 0, 128>>

Int64MinusOne == <<255, 255, 255, 255, 255, 255, 255, 255>>

\* 2^53 + 1, the first integer a double cannot hold.
Int64Unsafe == <<1, 0, 0, 0, 0, 0, 32, 0>>

\* A Binary of the codec: a class instance whose own properties are its
\* byte buffer (a Uint8Array), its subtype and its length.
BinaryValue ==
  JInstance("Binary",
    << Prop(<<"b", "u", "f", "f", "e", "r">>,
            JInstance("Uint8Array", <<Prop(<<"0">>, JInt(1))>>)),
       Prop(<<"s", "u", "b", "_", "t", "y", "p", "e">>, JInt(0)),
       Prop(<<"p", "o", "s", "i", "t", "i", "o", "n">>, JInt(1)) >>)

\* A Timestamp of the codec: a class instance holding two 32-bit halves.
TimestampValue ==
  JInstance("Timestamp",
    << Prop(<<"l", "o", "w">>, JInt(1)),
       Prop(<<"h", "i", "g", "h">>, JInt(2)),
       Prop(<<"u", "n", "s", "i", "g", "n", "e", "d">>, JBool(TRUE)) >>)

Keys == UNION {Tuples({Q, "a"}, n) : n \in 0..MaxKeyLen}

PairKeys == {<<"a">>, <<Q, "a", Q>>, <<Q, Q>>}

NestKeys == {<<"a">>, <<Q, "a", Q>>}

Leaves ==
  { JNull, JBool(TRUE), JInt(-1), JFrac(1, <<"5">>), JNonFinite("NaN"),
    JBigInt(Int64Max), JString(<<Q, "a", Q>>), BinaryValue, TimestampValue }

FlatValues ==
  Leaves
  \cup {JObject(<<Prop(k, v)>>) : k \in Keys, v \in Leaves}
  \cup {JObject(<<Prop(p[1], JInt(1)), Prop(p[2], JInt(2))>>) :
          p \in {q \in (Keys \X PairKeys) \cup (PairKeys \X Keys) :
                   q[1] # q[2]}}
  \cup {JArray(<<v, w>>) : v \in Leaves, w \in Leaves}

RECURSIVE NestedValues(_)
NestedValues(d) ==
  IF d = 0 THEN FlatValues
  ELSE LET inner == NestedValues(d - 1)
       IN inner
          \cup {JObject(<<Prop(k, v)>>) : k \in NestKeys, v \in inner}
          \cup {JArray(<<v>>) : v \in inner}

Values == NestedValues(MaxDepth)

InitFix ==
  /\ InitPage
  /\ call \in {[fn |-> "fixObjectKeys", step |-> 0, obj |-> v,
                once |-> JNull, twice |-> JNull] : v \in Values}

\* fixObjectKeys(obj)
CallFix ==
  /\ call.fn = "fixObjectKeys"
  /\ call.step = 0
  /\ call' = [call EXCEPT !.step = 1, !.once = fixObjectKeys(call.obj)]
  /\ UNCHANGED handlerState

\* fixObjectKeys(fixObjectKeys(obj))
CallFixAgain ==
  /\ call.fn = "fixObjectKeys"
  /\ call.step = 1
  /\ call' = [call EXCEPT !.step = 2, !.twice = fixObjectKeys(call.once)]
  /\ UNCHANGED handlerState

NextFix == CallFix \/ CallFixAgain

SpecFix == InitFix /\ [][NextFix]_vars

EncodeLeaves ==
  { JBigInt(Int64Max), JBigInt(Int64Min), JBigInt(Int64MinusOne),
    JBigInt(Int64Unsafe), JBigInt(<<0, 0, 0, 0, 0, 0, 0, 0>>),
    JInt(-2147483647 - 1), JInt(7), JFrac(1, <<"5">>),
    JNonFinite("NaN"), JNonFinite("Infinity"), JNonFinite("-Infinity"),
    JString(<<"9">>), JNull, JBool(FALSE) }

RECURSIVE EncodeValues(_)
EncodeValues(d) ==
  IF d = 0 THEN EncodeLeaves
  ELSE LET inner == EncodeValues(d - 1)
       IN inner
          \cup {JObject(<<Prop(<<Q, "b", Q>>, v)>>) : v \in inner}
          \cup {JArray(<<v, JInt(7)>>) : v \in inner}

\* Documents as the codec returns them.
RawDocs ==
  {JObject(<<>>)}
  \cup {JObject(<<Prop(<<"a">>, v)>>) : v \in EncodeValues(MaxDepth)}

SecondDocs ==
  { JObject(<<>>), JObject(<<Prop(<<"a">>, JBigInt(Int64Unsafe))>>),
    JObject(<<Prop(<<"a">>, JNonFinite("NaN"))>>) }

DocBatches ==
  {<<d>> : d \in RawDocs}
  \cup {<<d, e>> : d \in RawDocs, e \in SecondDocs}
  \cup {<<d, d, e>> : d \in SecondDocs, e \in SecondDocs}

InitEncode ==
  /\ InitPage
  /\ call \in {[fn |-> "stringify", step |-> 0, rawDocs |-> ds,
                documents |-> <<>>, jsonString |-> Threw("")] : ds \in DocBatches}

\* documents.push(fixObjectKeys(rawDoc)) for every decoded document
CallFixDocuments ==
  /\ call.fn = "stringify"
  /\ call.step = 0
  /\ call' = [call EXCEPT
                !.step = 1,
                !.documents = [i \in 1..Len(call.rawDocs) |->
                                 fixObjectKeys(call.rawDocs[i])]]
  /\ UNCHANGED handlerState

\* JSON.stringify(outputData, replacer, 2)
CallStringify ==
  /\ call.fn = "stringify"
  /\ call.step = 1
  /\ call' = [call EXCEPT
                !.step = 2,
                !.jsonString = JSONStringify(OutputData(call.documents))]
  /\ UNCHANGED handlerState

NextEncode == CallFixDocuments \/ CallStringify

SpecEncode == InitEncode /\ [][NextEncode]_vars

\* ======================================================================
\* Properties.  The definitions below describe the conversion of one buffer
\* as a function of its bytes, to state what the handler's results must be.
\* ======================================================================

\* The walk over the length prefixes alone, from offset off: the ranges
\* found and how the walk stops: "end" (offset reached the end of the
\* buffer), "short" (1 to 3 bytes left) or "corrupt" (a prefix that is not
\* positive or overruns the rest).
RECURSIVE Walk(_, _, _)
Walk(buf, off, ranges) ==
  IF off >= Len(buf) THEN [ranges |-> ranges, stop |-> "end", at |-> off]
  ELSE IF Len(buf) - off < 4
  THEN [ranges |-> ranges, stop |-> "short", at |-> off]
  ELSE LET size == readInt32LE(buf, off)
       IN IF size < 1 \/ off + size > Len(buf)
          THEN [ranges |-> ranges, stop |-> "corrupt", at |-> off]
          ELSE Walk(buf, off + size,
                    Append(ranges, [start |-> off, size |-> size]))

Frames(buf) == Walk(buf, 0, <<>>)

\* The codec's answer for the j-th range of the walk.
Decoded(buf, j) ==
  LET r == Frames(buf).ranges[j]
  IN deserialize(SubSeq(buf, r.start + 1, r.start + r.size))

\* The first range the codec rejects, 0 when it accepts them all.
FirstRejected(buf) ==
  LET n == Len(Frames(buf).ranges)
  IN IF \E j \in 1..n : Decoded(buf, j).threw
     THEN CHOOSE j \in 1..n :
            /\ Decoded(buf, j).threw
            /\ \A h \in 1..(j - 1) : ~Decoded(buf, h).threw
     ELSE 0

\* The text of the j-th document of the buffer written at nesting level n.
DocText(buf, j, n) ==
  SerializeJSONProperty(<<>>, fixObjectKeys(Decoded(buf, j).value), n)

\* The elements of an array root from the j-th document on.
RECURSIVE RootElements(_, _)
RootElements(buf, j) ==
  IF j > Len(Frames(buf).ranges) THEN <<>>
  ELSE (IF j > 1 THEN <<(<<",">>)>> ELSE <<>>)
       \o <<(<<"\n", " ", " ">>)>> \o DocText(buf, j, 1)
       \o RootElements(buf, j + 1)

\* The output text for the documents of the walk: the document itself when
\* there is one, an array of them in buffer order otherwise.
RootText(buf) ==
  IF Len(Frames(buf).ranges) = 1 THEN DocText(buf, 1, 0)
  ELSE <<(<<"[">>)>> \o RootElements(buf, 1) \o <<(<<"\n">>), (<<"]">>)>>

\* The result record of one file converted on its own.
Expected(f) ==
  IF f.bytes = <<>> THEN Failure(f.name, EmptyFileMessage)
  ELSE IF FirstRejected(f.bytes) # 0
  THEN Failure(f.name, Decoded(f.bytes, FirstRejected(f.bytes)).message)
  ELSE IF Frames(f.bytes).stop = "corrupt"
  THEN Failure(f.name, InvalidSizeMessage(f.name))
  ELSE IF Frames(f.bytes).ranges = <<>>
  THEN Failure(f.name, CouldNotParseMessage(f.name))
  ELSE Success(f.name, RootText(f.bytes))

\* The files of the conversion that runs or has just been published, and
\* the results it has so far.
RunFiles == IF pc = "idle" THEN selectedFiles ELSE files

RunResults ==
  IF pc # "idle" THEN resultsBatch
  ELSE IF ~convertedResults.isNull /\ selectedFiles # <<>>
  THEN convertedResults.results
  ELSE <<>>

\* The conversion has returned and its results are published.
Published == pc = "idle" /\ ~convertedResults.isNull /\ selectedFiles # <<>>

\* Whether text part occurs in text whole as a contiguous run.
Contains(whole, part) ==
  \E i \in 0..(Len(whole) - Len(part)) :
    SubSeq(whole, i + 1, i + Len(part)) = part

\* C1: the results come one per file, in the files' order, the i-th carrying
\* the i-th file's name and being exactly the record that file gives when
\* converted on its own, whatever the other files of the batch give.
C1_BatchOrderAndIndependence ==
  /\ Len(RunResults) <= Len(RunFiles)
  /\ (Published => Len(RunResults) = Len(RunFiles))
  /\ (pc = "file" => Len(RunResults) = fileIdx - 1)
  /\ \A i \in 1..Len(RunResults) :
       /\ RunResults[i].originalName = RunFiles[i].name
       /\ RunResults[i] = Expected(RunFiles[i])

\* A failing file between two successful ones, all three published.
C1_Witness ==
  /\ Published
  /\ Len(RunResults) = 3
  /\ IsSuccess(RunResults[1])
  /\ IsFailure(RunResults[2])
  /\ IsSuccess(RunResults[3])

\* The buffer is k >= 1 well-formed documents and nothing else.
WellFormed(buf) ==
  /\ buf # <<>>
  /\ Frames(buf).stop = "end"
  /\ FirstRejected(buf) = 0

\* Number of elements of the root of an output text: the documents opened
\* directly inside the root array; 1 for an object root.
RootCount(text) ==
  IF text[1] # <<"[">> THEN 1
  ELSE Cardinality({i \in 1..(Len(text) - 1) :
                      text[i] = <<"\n", " ", " ">> /\ text[i + 1] = <<"{">>})

\* C2: a buffer of k >= 1 well-formed documents gives a Success holding
\* exactly these k documents in buffer order; the root is the document
\* itself when k = 1 and an array of the k documents when k >= 2.
C2_WellFormedBufferSucceeds ==
  \A i \in 1..Len(RunResults) :
    LET buf == RunFiles[i].bytes
        k == Len(Frames(buf).ranges)
        r == RunResults[i]
    IN WellFormed(buf) =>
         /\ IsSuccess(r)
         /\ r.jsonString = RootText(buf)
         /\ RootCount(r.jsonString) = k
         /\ (k = 1 => r.jsonString[1] = <<"{">>)
         /\ (k >= 2 => r.jsonString[1] = <<"[">>)

\* A published success for a buffer of two documents.
C2_Witness ==
  /\ Published
  /\ \E i \in 1..Len(RunResults) :
       /\ WellFormed(RunFiles[i].bytes)
       /\ Len(Frames(RunFiles[i].bytes).ranges) = 2
       /\ IsSuccess(RunResults[i])

\* The walk over the length prefixes of the buffer stops at a corrupt one.
Corrupt(buf) == buf # <<>> /\ Frames(buf).stop = "corrupt"

C4_DecodeFailureFailsBuffer ==
  /\ (pc = "file" => Len(RunResults) = fileIdx - 1)
  /\ (Published => Len(RunResults) = Len(RunFiles))
  /\ \A i \in 1..Len(RunResults) :
       LET buf == RunFiles[i].bytes
           r == RunResults[i]
       IN (buf # <<>> /\ FirstRejected(buf) # 0) =>
            /\ IsFailure(r) /\ ~IsSuccess(r)
            /\ r.error = Decoded(buf, FirstRejected(buf)).message

\* A published decode Failure for a buffer whose first document was decoded,
\* followed by the result of a later file.
C4_Witness ==
  /\ Published
  /\ \E i \in 1..(Len(RunResults) - 1) :
       /\ FirstRejected(RunFiles[i].bytes) > 1
       /\ IsFailure(RunResults[i])
       /\ RunResults[i].error =
            Decoded(RunFiles[i].bytes, FirstRejected(RunFiles[i].bytes)).message

\* C5 as stated: the message of every Failure contains the file's name.
C5_AsStated ==
  \A i \in 1..Len(RunResults) :
    IsFailure(RunResults[i]) =>
      Contains(RunResults[i].error, RunFiles[i].name)

\* C5 amended: every Failure carries the file's name in originalName and a
\* non-empty message; the message contains the name for an invalid size and
\* for a buffer without documents, it is the fixed text "File is empty." for
\* an empty buffer, and it is the codec's own message for a rejected
\* document.
C5_FailureNamesBuffer ==
  \A i \in 1..Len(RunResults) :
    LET buf == RunFiles[i].bytes
        name == RunFiles[i].name
        r == RunResults[i]
    IN IsFailure(r) =>
         /\ r.originalName = name
         /\ r.error # <<>>
         /\ IF buf = <<>>
            THEN r.error = <<"File is empty.">> /\ ~Contains(r.error, name)
            ELSE IF FirstRejected(buf) # 0
            THEN r.error = Decoded(buf, FirstRejected(buf)).message
            ELSE Contains(r.error, name)

\* A published batch with an empty-file Failure and an invalid-size Failure.
C5_Witness ==
  /\ Published
  /\ \E i, j \in 1..Len(RunResults) :
       /\ IsFailure(RunResults[i])
       /\ RunFiles[i].bytes = <<>>
       /\ IsFailure(RunResults[j])
       /\ Corrupt(RunFiles[j].bytes)
       /\ Contains(RunResults[j].error, RunFiles[j].name)

\* The walk ends with 1 to 3 bytes left, every range before being accepted
\* by the codec.
EndsShort(buf) ==
  /\ buf # <<>>
  /\ Frames(buf).stop = "short"
  /\ FirstRejected(buf) = 0

\* C9: leftover bytes (1 to 3) raise no framing error: the result is a
\* Success with exactly the documents found before them when there is one,
\* and the could-not-parse Failure when there is none; that Failure occurs
\* exactly for the buffers of 1 to 3 bytes.
C9_TrailingBytesAreBenign ==
  \A i \in 1..Len(RunResults) :
    LET buf == RunFiles[i].bytes
        name == RunFiles[i].name
        r == RunResults[i]
    IN /\ (EndsShort(buf) /\ Frames(buf).ranges # <<>>) =>
            /\ IsSuccess(r)
            /\ r.jsonString = RootText(buf)
            /\ RootCount(r.jsonString) = Len(Frames(buf).ranges)
       /\ (EndsShort(buf) /\ Frames(buf).ranges = <<>>) =>
            r = Failure(name, CouldNotParseMessage(name))
       /\ (r = Failure(name, CouldNotParseMessage(name)))
            <=> (Len(buf) \in 1..3)

\* A published Success for a buffer with a document and leftover bytes.
C9_Witness ==
  /\ Published
  /\ \E i \in 1..Len(RunResults) :
       /\ EndsShort(RunFiles[i].bytes)
       /\ Frames(RunFiles[i].bytes).ranges # <<>>
       /\ IsSuccess(RunResults[i])

\* In the loop, offset stays inside the buffer and stands at the end of the
\* last accepted range: the accepted ranges are the first ranges of the
\* prefix walk, contiguous from 0 and inside the buffer.
LoopBounds ==
  pc \in {"loop", "post"} =>
    LET rs == Frames(nodeBuffer).ranges
        n == Len(documents)
    IN /\ 0 <= offset /\ offset <= Len(nodeBuffer)
       /\ n <= Len(rs)
       /\ offset = (IF n = 0 THEN 0 ELSE rs[n].start + rs[n].size)
       /\ \A j \in 1..n :
            /\ rs[j].size >= 1
            /\ rs[j].start = (IF j = 1 THEN 0 ELSE rs[j - 1].start + rs[j - 1].size)
            /\ rs[j].start + rs[j].size <= Len(nodeBuffer)

\* A step that stays in the loop accepts a document: offset grows, by at
\* least 1 and not beyond the end.
LoopAdvances ==
  (pc = "loop" /\ pc' = "loop") =>
    /\ offset < offset'
    /\ offset' <= Len(nodeBuffer)
    /\ Len(documents') = Len(documents) + 1

\* A step of the loop that reads a length prefix reads it inside the buffer
\* (the steps that read none go to "post" without a failure flagged).
LoopReadsInside ==
  (pc = "loop" /\ ~(pc' = "post" /\ ~fileSpecificErrorToastShown')) =>
    offset + 4 <= Len(nodeBuffer)

\* C10: the framing loop keeps 0 <= offset <= length, reads every prefix
\* inside the buffer, accepts contiguous ranges inside the buffer, advances
\* offset strictly with each accepted document, and terminates.
C10_LoopTerminatesInBounds ==
  /\ []LoopBounds
  /\ [][LoopAdvances]_vars
  /\ [][LoopReadsInside]_vars
  /\ (pc = "loop") ~> (pc # "loop")

\* The loop after two accepted documents.
C10_Witness == pc = "loop" /\ Len(documents) >= 2 /\ offset > 0

\* ------------------------------------------------------------ serialization

\* The scalar leaves of a value in the order serialization meets them.
RECURSIVE LeavesOf(_)
RECURSIVE LeavesFrom(_, _)
LeavesFrom(vs, i) ==
  IF i > Len(vs) THEN <<>> ELSE LeavesOf(vs[i]) \o LeavesFrom(vs, i + 1)

LeavesOf(v) ==
  IF v.t = "array" THEN LeavesFrom(v.items, 1)
  ELSE IF v.t = "object"
  THEN LeavesFrom([i \in 1..Len(v.props) |-> v.props[i].val], 1)
  ELSE <<v>>

Punctuation == {<<"{">>, <<"}">>, <<"[">>, <<"]">>, <<",">>, <<":">>, <<" ">>}

\* The pieces of an output text that are scalar values: not punctuation, not
\* a line break with its indentation, not a key (a key is followed by ":").
RECURSIVE ScalarPieces(_, _)
ScalarPieces(text, i) ==
  IF i > Len(text) THEN <<>>
  ELSE (IF \/ text[i] \in Punctuation
           \/ text[i][1] = "\n"
           \/ (i < Len(text) /\ text[i + 1] = <<":">>)
        THEN <<>> ELSE <<text[i]>>)
       \o ScalarPieces(text, i + 1)

IsDigit(c) == \E d \in 1..10 : Digits[d] = c

DigitValue(c) == (CHOOSE d \in 1..10 : Digits[d] = c) - 1

\* bytes * 10 + carry on little-endian bytes from byte i on (the width is
\* kept, so a value of more than 64 bits wraps).
RECURSIVE TimesTenPlus(_, _, _)
TimesTenPlus(bytes, i, carry) ==
  IF i > Len(bytes) THEN <<>>
  ELSE LET x == bytes[i] * 10 + carry
       IN <<x % 256>> \o TimesTenPlus(bytes, i + 1, x \div 256)

\* The 64-bit little-endian magnitude denoted by decimal digits.
RECURSIVE ParseMagnitude(_, _)
ParseMagnitude(digits, acc) ==
  IF digits = <<>> THEN acc
  ELSE ParseMagnitude(Tail(digits), TimesTenPlus(acc, 1, DigitValue(Head(digits))))

IsDecimal(chars) ==
  LET digits == IF chars # <<>> /\ chars[1] = "-" THEN Tail(chars) ELSE chars
  IN /\ digits # <<>>
     /\ \A i \in 1..Len(digits) : IsDigit(digits[i])
     /\ (Len(digits) > 1 => digits[1] # "0")

\* The 64-bit two's complement value denoted by a decimal text.
ParseInt64(chars) ==
  LET neg == chars[1] = "-"
      mag == ParseMagnitude(IF neg THEN Tail(chars) ELSE chars,
                            <<0, 0, 0, 0, 0, 0, 0, 0>>)
  IN IF neg THEN Negate(mag) ELSE mag

\* The piece is a quoted decimal string denoting exactly the 64-bit value.
IsQuotedDecimalOf(piece, bytes) ==
  /\ Len(piece) >= 3
  /\ piece[1] = Q /\ piece[Len(piece)] = Q
  /\ LET inner == SubSeq(piece, 2, Len(piece) - 1)
     IN IsDecimal(inner) /\ ParseInt64(inner) = bytes

\* The integer denoted by a decimal text, built on the negative side so
\* that -2^31 is reached without passing 2^31.
RECURSIVE ParseNegated(_, _)
ParseNegated(digits, acc) ==
  IF digits = <<>> THEN acc
  ELSE ParseNegated(Tail(digits), acc * 10 - DigitValue(Head(digits)))

\* The piece is a bare numeric literal denoting the number.
IsNumericLiteralOf(piece, v) ==
  LET dot == IF \E i \in 1..Len(piece) : piece[i] = "."
             THEN CHOOSE i \in 1..Len(piece) : piece[i] = "."
             ELSE Len(piece) + 1
      whole == SubSeq(piece, 1, dot - 1)
      frac == SubSeq(piece, dot + 1, Len(piece))
      neg == whole # <<>> /\ whole[1] = "-"
  IN /\ IsDecimal(whole)
     /\ \A i \in 1..Len(frac) : IsDigit(frac[i])
     /\ (dot <= Len(piece) => frac # <<>>)
     /\ frac = v.frac
     /\ v.int = (IF neg THEN ParseNegated(Tail(whole), 0)
                 ELSE -ParseNegated(whole, 0))

\* The serialization of the function-level specification has returned.
Stringified == call.fn = "stringify" /\ call.step = 2

EncodedLeaves == LeavesFrom(call.rawDocs, 1)

EncodedPieces == ScalarPieces(call.jsonString.value, 1)

\* C6 as stated: in the output every Int64 is a quoted decimal string of its
\* exact value and every Int32 and Float64 is a bare numeric literal.
C6_AsStated ==
  Stringified =>
    /\ ~call.jsonString.threw
    /\ Len(EncodedPieces) = Len(EncodedLeaves)
    /\ \A i \in 1..Len(EncodedLeaves) :
         /\ EncodedLeaves[i].t = "bigint" =>
              IsQuotedDecimalOf(EncodedPieces[i], EncodedLeaves[i].bytes)
         /\ EncodedLeaves[i].t = "number" =>
              IsNumericLiteralOf(EncodedPieces[i], EncodedLeaves[i])

\* C6 amended: in the output every Int64, at any depth, is a quoted decimal
\* string of its exact value, never a bare literal; every Int32 and every
\* finite Float64 is a bare numeric literal; a Float64 that is NaN or an
\* infinity is written as null.
C6_Int64AsDecimalString ==
  Stringified =>
    /\ ~call.jsonString.threw
    /\ Len(EncodedPieces) = Len(EncodedLeaves)
    /\ \A i \in 1..Len(EncodedLeaves) :
         /\ EncodedLeaves[i].t = "bigint" =>
              IsQuotedDecimalOf(EncodedPieces[i], EncodedLeaves[i].bytes)
         /\ (EncodedLeaves[i].t = "number" /\ EncodedLeaves[i].cls = "finite") =>
              IsNumericLiteralOf(EncodedPieces[i], EncodedLeaves[i])
         /\ (EncodedLeaves[i].t = "number" /\ EncodedLeaves[i].cls # "finite") =>
              EncodedPieces[i] = <<"n", "u", "l", "l">>

\* Two documents serialized, the first holding 9223372036854775807 below its
\* root fields, written as "9223372036854775807".
C6_Witness ==
  /\ Stringified
  /\ ~call.jsonString.threw
  /\ Len(call.rawDocs) = 2
  /\ Len(call.rawDocs[1].props) = 1
  /\ call.rawDocs[1].props[1].val.t \in {"array", "object"}
  /\ EncodedLeaves[1] = JBigInt(Int64Max)
  /\ EncodedPieces[1] =
       <<Q, "9", "2", "2", "3", "3", "7", "2", "0", "3", "6", "8", "5", "4",
         "7", "7", "5", "8", "0", "7", Q>>

\* --------------------------------------------------------- key normalization

\* key without its one outer pair of double quotes, when it has one.
StripOuterQuotes(key) ==
  IF Len(key) >= 2 /\ Head(key) = Q /\ key[Len(key)] = Q
  THEN [i \in 1..(Len(key) - 2) |-> key[i + 1]]
  ELSE key

IsQuoteWrapped(key) == Len(key) >= 2 /\ Head(key) = Q /\ key[Len(key)] = Q

\* The rule of the Key Normalizer on the Value variants: an Array maps
\* element by element, an Object pair by pair (a later pair replacing an
\* earlier one of the same stripped key), every other variant, Binary and
\* Timestamp included, is returned as it is.
RECURSIVE Normalized(_)
RECURSIVE NormalizedPairs(_, _, _)
NormalizedPairs(props, i, acc) ==
  IF i > Len(props) THEN acc
  ELSE NormalizedPairs(props, i + 1,
         SetProp(acc, StripOuterQuotes(props[i].key), Normalized(props[i].val)))

Normalized(v) ==
  IF v.t = "array"
  THEN JArray([i \in 1..Len(v.items) |-> Normalized(v.items[i])])
  ELSE IF v.t = "object" /\ v.cls = "Object"
  THEN JObject(NormalizedPairs(v.props, 1, <<>>))
  ELSE v

\* C7: fixObjectKeys returns, for every Value, what the rule gives: Arrays
\* element-wise, Objects with each key stripped of its one outer pair of
\* quotes, every other variant (Null, Bool, Int32, Int64, Float64, Text,
\* Binary, Timestamp) unchanged.
C7_AsStated ==
  (call.fn = "fixObjectKeys" /\ call.step >= 1) =>
    call.once = Normalized(call.obj)

\* No key of the object is the quoted form of another key of the object.
NoQuotedFormOfAnother(o) ==
  \A i, j \in 1..Len(o.props) :
    i # j => o.props[i].key # <<Q>> \o o.props[j].key \o <<Q>>

\* No key of the object is still quote-wrapped once its outer pair of quotes
\* is stripped.
NoDoublyWrappedKey(o) ==
  \A i \in 1..Len(o.props) : ~IsQuoteWrapped(StripOuterQuotes(o.props[i].key))

HasWrappedKey(o) == \E i \in 1..Len(o.props) : IsQuoteWrapped(o.props[i].key)

\* The objects of a value, at every depth.
RECURSIVE ObjectsOf(_)
ObjectsOf(v) ==
  IF v.t = "array" THEN UNION {ObjectsOf(v.items[i]) : i \in 1..Len(v.items)}
  ELSE IF v.t = "object"
  THEN {v} \cup UNION {ObjectsOf(v.props[i].val) : i \in 1..Len(v.props)}
  ELSE {}

FixedTwice == call.fn = "fixObjectKeys" /\ call.step = 2

\* C8 as stated: on a value in which no key is the quoted form of another
\* key of the same object, applying fixObjectKeys twice gives what applying
\* it once gives.
C8_AsStated ==
  (FixedTwice /\ (\A o \in ObjectsOf(call.obj) : NoQuotedFormOfAnother(o))) =>
    call.twice = call.once

\* C8 amended: on a value in which no key, at any depth, is still wrapped in
\* double quotes after its one outer pair is stripped, applying
\* fixObjectKeys twice gives what applying it once gives.
C8_IdempotentWithoutDoubleWrapping ==
  (FixedTwice /\ (\A o \in ObjectsOf(call.obj) : NoDoublyWrappedKey(o))) =>
    call.twice = call.once

\* fixObjectKeys applied twice to a nested value with a quote-wrapped key
\* and no doubly wrapped one: the first application changed the value.
C8_Witness ==
  /\ FixedTwice
  /\ \A o \in ObjectsOf(call.obj) : NoDoublyWrappedKey(o)
  /\ \E o \in ObjectsOf(call.obj) : HasWrappedKey(o)
  /\ call.obj.t = "object"
  /\ call.obj.props[1].val.t = "object"
  /\ call.once # call.obj

====
